---- MODULE Spec2Model ----
(***************************************************************************)
(* Model of the grouping-heuristic retry engine of movement-types          *)
(* (util/movement-types/src/algs/grouping_heuristic/mod.rs): the outcome   *)
(* model, the group container, the heuristic stack and its two drivers,    *)
(* run and run_async_sequential.                                           *)
(***************************************************************************)
EXTENDS Integers, Sequences, FiniteSets, TLC

\* ------------------------------------------------------------------ bounds

\* Largest number of elements in a seed distribution.
MaxElems == 4

\* The round counter saturates here; the loop itself is never capped.
MaxRound == 3

\* Largest length of a group or of a raw element sequence handed to the
\* operations of the outcome model and of the group container.
MaxLen == 3

\* Largest number of operations a caller applies one after the other.
MaxOps == 2

\* Attempts after which the bounded processing function makes an element done.
AttemptLimit == 2

\* ----------------------------------------------------------- outcome model

\* Payload slot of an outcome that carries no element (Success).
NoPayload == 0

Payloads == 1..MaxElems

\* ElementalFailure<T>: Instrumental(t) | Terminal(t).
Instrumental(t) == [kind |-> "Instrumental", val |-> t]
Terminal(t) == [kind |-> "Terminal", val |-> t]

\* ElementalOutcome<T>: Apply(t) | Success | Failure(f).
Apply(t) == [tag |-> "Apply", kind |-> "None", val |-> t]
Success == [tag |-> "Success", kind |-> "None", val |-> NoPayload]
Failure(f) == [tag |-> "Failure", kind |-> f.kind, val |-> f.val]

\* The failure wrapped by a Failure outcome.
FailureOf(o) == [kind |-> o.kind, val |-> o.val]

\* ElementalFailure::is_terminal
is_terminal(f) == f.kind = "Terminal"

\* ElementalFailure::is_instrumental
is_instrumental(f) == f.kind = "Instrumental"

\* The arms of to_terminal swapped for one another.
failure_to_terminal_swapped(f) ==
    CASE f.kind = "Instrumental" -> Terminal(f.val)
      [] f.kind = "Terminal" -> Instrumental(f.val)

\* ElementalFailure::to_terminal
failure_to_terminal(f) ==
    CASE f.kind = "Instrumental" -> Terminal(f.val)
      [] f.kind = "Terminal" -> Terminal(f.val)

\* ElementalFailure::to_instrumental
failure_to_instrumental(f) ==
    CASE f.kind = "Instrumental" -> Instrumental(f.val)
      [] f.kind = "Terminal" -> Instrumental(f.val)

\* ElementalFailure::into_inner
into_inner(f) ==
    CASE f.kind = "Instrumental" -> f.val
      [] f.kind = "Terminal" -> f.val

\* PartialEq for ElementalFailure<T>
failure_eq(f1, f2) ==
    CASE f1.kind = "Instrumental" /\ f2.kind = "Instrumental" -> f1.val = f2.val
      [] f1.kind = "Terminal" /\ f2.kind = "Terminal" -> f1.val = f2.val
      [] OTHER -> FALSE

\* PartialEq for ElementalOutcome<T>
outcome_eq(a, b) ==
    CASE a.tag = "Apply" /\ b.tag = "Apply" -> a.val = b.val
      [] a.tag = "Success" /\ b.tag = "Success" -> TRUE
      [] a.tag = "Failure" /\ b.tag = "Failure" ->
            failure_eq(FailureOf(a), FailureOf(b))
      [] OTHER -> FALSE

\* ElementalOutcome::new_apply
new_apply_outcome(t) == Apply(t)

\* ElementalOutcome::is_success
is_success(o) == o.tag = "Success"

\* ElementalOutcome::is_failure
is_failure(o) == o.tag = "Failure"

\* ElementalOutcome::is_apply
is_apply(o) == o.tag = "Apply"

\* A plausible slip in is_done: every failure counts as done.
is_done_any_failure(o) ==
    CASE o.tag = "Apply" -> FALSE
      [] o.tag = "Success" -> TRUE
      [] o.tag = "Failure" -> TRUE

\* A plausible slip in is_done: no failure counts as done.
is_done_success_only(o) ==
    CASE o.tag = "Apply" -> FALSE
      [] o.tag = "Success" -> TRUE
      [] o.tag = "Failure" -> FALSE

\* ElementalOutcome::is_done
is_done(o) ==
    CASE o.tag = "Apply" -> FALSE
      [] o.tag = "Success" -> TRUE
      [] o.tag = "Failure" -> is_terminal(FailureOf(o))

\* ElementalOutcome::to_terminal
to_terminal(o) ==
    CASE o.tag = "Apply" -> Failure(Terminal(o.val))
      [] o.tag = "Success" -> Success
      [] o.tag = "Failure" -> Failure(failure_to_terminal(FailureOf(o)))

\* ElementalOutcome::to_instrumental
to_instrumental(o) ==
    CASE o.tag = "Apply" -> Failure(Instrumental(o.val))
      [] o.tag = "Success" -> Success
      [] o.tag = "Failure" -> Failure(failure_to_instrumental(FailureOf(o)))

\* to_apply with a failure taken for a completed element.
to_apply_failure_succeeds(o) ==
    CASE o.tag = "Apply" -> Apply(o.val)
      [] o.tag = "Success" -> Success
      [] o.tag = "Failure" -> Success

\* ElementalOutcome::to_apply
to_apply(o) ==
    CASE o.tag = "Apply" -> Apply(o.val)
      [] o.tag = "Success" -> Success
      [] o.tag = "Failure" -> Apply(into_inner(FailureOf(o)))

\* ------------------------------------------------------------ group container

\* PartialEq for GroupingOutcome<T>: zip pairs the outcomes up to the end of
\* the shorter group.
group_eq(a, b) ==
    \A i \in 1..(IF Len(a) <= Len(b) THEN Len(a) ELSE Len(b)) :
        outcome_eq(a[i], b[i])

\* GroupingOutcome::new_all_success
RECURSIVE new_all_success(_)
new_all_success(size) ==
    IF size = 0 THEN <<>> ELSE Append(new_all_success(size - 1), Success)

\* GroupingOutcome::new_apply and From<Vec<T>>
new_apply(raw_elements) ==
    [i \in 1..Len(raw_elements) |-> new_apply_outcome(raw_elements[i])]

\* new_apply_distribution with a group for each element.
new_apply_distribution_each(raw_elements) ==
    [i \in 1..Len(raw_elements) |-> <<new_apply_outcome(raw_elements[i])>>]

\* GroupingOutcome::new_apply_distribution
new_apply_distribution(raw_elements) == <<new_apply(raw_elements)>>

\* GroupingOutcome::all_succeeded
all_succeeded(g) == \A i \in 1..Len(g) : is_success(g[i])

\* all_done made with any in place of all.
all_done_any(g) == \E i \in 1..Len(g) : is_done(g[i])

\* GroupingOutcome::all_done
all_done(g) == \A i \in 1..Len(g) : is_done(g[i])

\* GroupingOutcome::all_to_terminal mapping to_instrumental instead.
all_to_terminal_instrumental(g) == [i \in 1..Len(g) |-> to_instrumental(g[i])]

\* all_to_terminal collecting the outcomes from the last to the first.
all_to_terminal_reversed(g) ==
    [i \in 1..Len(g) |-> to_terminal(g[Len(g) + 1 - i])]

\* GroupingOutcome::all_to_terminal
all_to_terminal(g) == [i \in 1..Len(g) |-> to_terminal(g[i])]

\* all_to_apply with the terminal failures left out.
all_to_apply_live(g) ==
    LET live == SelectSeq(g, LAMBDA o : ~(is_failure(o) /\ is_terminal(FailureOf(o))))
    IN  [i \in 1..Len(live) |-> to_apply(live[i])]

\* GroupingOutcome::all_to_apply
all_to_apply(g) == [i \in 1..Len(g) |-> to_apply(g[i])]

\* into_original with each payload put in front of those before it.
RECURSIVE into_original_reversed(_)
into_original_reversed(g) ==
    IF g = <<>> THEN <<>>
    ELSE IF Head(g).tag = "Success" THEN into_original_reversed(Tail(g))
    ELSE into_original_reversed(Tail(g)) \o <<Head(g).val>>

\* into_original with the terminal failures dropped.
RECURSIVE into_original_live(_)
into_original_live(g) ==
    IF g = <<>> THEN <<>>
    ELSE IF Head(g).tag = "Success" \/ Head(g).kind = "Terminal"
         THEN into_original_live(Tail(g))
    ELSE <<Head(g).val>> \o into_original_live(Tail(g))

\* GroupingOutcome::into_original
RECURSIVE into_original(_)
into_original(g) ==
    IF g = <<>> THEN <<>>
    ELSE LET outcome == Head(g)
             original == into_original(Tail(g))
         IN CASE outcome.tag = "Apply" -> <<outcome.val>> \o original
              [] outcome.tag = "Success" -> original
              [] outcome.tag = "Failure" ->
                    CASE outcome.kind = "Instrumental" ->
                            <<outcome.val>> \o original
                      [] outcome.kind = "Terminal" ->
                            <<outcome.val>> \o original

\* The payloads a group carries (Success entries carry none).
GroupPayloads(g) == {g[i].val : i \in {j \in 1..Len(g) : ~is_success(g[j])}}

DistPayloads(d) == UNION {GroupPayloads(d[i]) : i \in 1..Len(d)}

\* The payloads whose outcome is Failure(Terminal) in a distribution.
TerminalPayloads(d) ==
    UNION {{d[i][j].val : j \in {k \in 1..Len(d[i]) :
                is_failure(d[i][k]) /\ is_terminal(FailureOf(d[i][k]))}}
           : i \in 1..Len(d)}

\* ---------------------------------------------------------------- heuristics

\* All outcomes of a distribution, in order across group boundaries.
RECURSIVE Flatten(_)
Flatten(d) == IF d = <<>> THEN <<>> ELSE Head(d) \o Flatten(Tail(d))

\* Consecutive groups of exactly size outcomes, a shorter remainder left out.
RECURSIVE ChunksExact(_, _)
ChunksExact(size, outcomes) ==
    IF Len(outcomes) < size THEN <<>>
    ELSE <<SubSeq(outcomes, 1, size)>>
             \o ChunksExact(size, SubSeq(outcomes, size + 1, Len(outcomes)))

\* Consecutive groups of at most size outcomes, the last holding the remainder.
RECURSIVE Chunks(_, _)
Chunks(size, outcomes) ==
    IF outcomes = <<>> THEN <<>>
    ELSE IF Len(outcomes) <= size THEN <<outcomes>>
    ELSE <<SubSeq(outcomes, 1, size)>>
             \o Chunks(size, SubSeq(outcomes, size + 1, Len(outcomes)))

\* Chunking(size)::distribute
Chunking(size, d) == Chunks(size, Flatten(d))

\* Every group without its done entries, terminal failures included.
DropDone(d) ==
    [i \in 1..Len(d) |-> SelectSeq(d[i], LAMBDA o : ~is_done(o))]

\* DropSuccess::distribute: every group without its Success entries.
DropSuccess(d) ==
    [i \in 1..Len(d) |-> SelectSeq(d[i], LAMBDA o : ~is_success(o))]

\* Heuristic configurations of the model: Chunking(size), and a heuristic that
\* passes the distribution through until its arg-th invocation, which fails.
ChunkingH(size) == [kind |-> "Chunking", arg |-> size]
FailAtH(n) == [kind |-> "FailAt", arg |-> n]

\* The error a failing heuristic returns.
HeuristicError(i) == [ok |-> FALSE, src |-> "heuristic", at |-> i, val |-> <<>>]

\* The error a failing processing function returns.
FuncError(i) == [ok |-> FALSE, src |-> "func", at |-> i, val |-> <<>>]

Ok(d) == [ok |-> TRUE, src |-> "none", at |-> 0, val |-> d]

\* The driver has not returned.
NoResult == [ok |-> FALSE, src |-> "running", at |-> 0, val |-> <<>>]

\* GroupingHeuristic::distribute of the i-th heuristic h of the stack, at its
\* n-th invocation.
HeuristicDistribute(h, i, n, d) ==
    CASE h.kind = "Chunking" -> Ok(Chunking(h.arg, d))
      [] h.kind = "FailAt" -> IF n = h.arg THEN HeuristicError(i) ELSE Ok(d)

\* GroupingHeuristicStack::distribute, from the i-th heuristic of stack s on:
\* each heuristic takes the previous one's output, the first error ends it.
RECURSIVE DistributeFrom(_, _, _, _)
DistributeFrom(s, i, n, d) ==
    IF i > Len(s) THEN Ok(d)
    ELSE LET r == HeuristicDistribute(s[i], i, n, d) IN
           IF r.ok THEN DistributeFrom(s, i + 1, n, r.val) ELSE r

\* GroupingHeuristicStack::distribute at the stack's n-th invocation.
distribute(s, n, d) == DistributeFrom(s, 1, n, d)

\* Whether a stack holds no heuristic that can fail.
NeverFails(s) == \A i \in 1..Len(s) : s[i].kind # "FailAt"

\* The group sizes the Chunking heuristics of the model are configured with.
ChunkSizes == {1, 2, 3}

\* The stacks the model is configured with.
Stacks ==
    {<<>>, <<ChunkingH(2), ChunkingH(3)>>}
        \cup {<<ChunkingH(c)>> : c \in ChunkSizes}
        \cup {<<ChunkingH(2), FailAtH(n)>> : n \in 1..2}
        \cup {<<FailAtH(n), ChunkingH(2)>> : n \in 1..2}

\* ------------------------------------------------------- processing functions

FuncKinds ==
    {"always_success", "identity", "retry_once", "ledger", "bounded", "stubborn"}

\* The outcomes a processing function of the kind may return for one outcome o
\* of the group it is given; att counts the attempts made on each payload.
ElemReplies(kind, o, att) ==
    CASE kind = "always_success" -> {Success}
      [] kind = "identity" -> {o}
      [] kind = "retry_once" ->
            IF is_success(o) THEN {Success}
            ELSE IF att[o.val] = 0 THEN {Failure(Instrumental(o.val))}
            ELSE {Success}
      [] kind = "ledger" ->
            IF is_done(o) THEN {o}
            ELSE {Success, Failure(Instrumental(o.val)), Failure(Terminal(o.val))}
      [] kind = "bounded" ->
            IF is_done(o) THEN {o}
            ELSE IF att[o.val] + 1 >= AttemptLimit
                 THEN {Success, Failure(Terminal(o.val))}
            ELSE {Success, Failure(Instrumental(o.val))}
      [] kind = "stubborn" ->
            IF is_success(o) THEN {Success} ELSE {Failure(Instrumental(o.val))}

\* The replacement groups the processing function may return for group g.
RECURSIVE GroupReplies(_, _, _)
GroupReplies(kind, g, att) ==
    IF g = <<>> THEN {<<>>}
    ELSE {<<o>> \o rest : o \in ElemReplies(kind, Head(g), att),
                          rest \in GroupReplies(kind, Tail(g), att)}

\* Whether a call of the processing function may return an error.
MayFail(kind) == kind = "ledger"

\* The attempt counters after the processing function was given group g.
Attempted(kind, g, att) ==
    IF kind \in {"retry_once", "bounded"}
    THEN [t \in Payloads |->
            IF t \in GroupPayloads(g) /\ att[t] < AttemptLimit
            THEN att[t] + 1 ELSE att[t]]
    ELSE att

\* ------------------------------------------------------------------- seeds

Elements(n) == [i \in 1..n |-> i]

\* The distributions a driver is started on.
Seeds ==
    {new_apply_distribution(Elements(n)) : n \in 0..MaxElems}
        \cup {<<new_all_success(n)>> : n \in 1..MaxElems}
        \cup {<<>>,
              <<new_apply(<<1>>), new_apply(<<2, 3>>)>>,
              <<<<Failure(Terminal(1)), Success>>, <<Failure(Terminal(2))>>>>}

\* ------------------------------------------------------------------- state

VARIABLES
    driver,            \* "run" or "run_async_sequential"
    stack,             \* GroupingHeuristicStack.0: the heuristics, in list order
    funcKind,          \* the processing function the caller supplied
    seed,              \* the distribution the driver was called with
    pc,                \* the driver's position: "distribute", "for", "await", "done"
    hidx,              \* distribute: index of the next heuristic of the stack
    distribution,      \* the driver's local distribution
    pending,           \* the groups the for loop has not yet taken
    inflight,          \* the groups handed to calls that have not completed
    new_distribution,  \* the replacement groups collected in this round
    result,            \* what the driver returned, NoResult while it runs
    attempts,          \* the processing function's own count per payload
    round,             \* number of the current round, saturating at MaxRound
    roundStart,        \* the distribution the current round started from
    calls,             \* this round's completed calls: [input, output], in order
    everTerminal,      \* payloads that were Failure(Terminal) at the end of an
                       \* earlier round
    chain              \* the values a caller of the outcome and group
                       \* operations obtained one from the other, with the
                       \* operation that gave each; empty while a driver runs

driverVars ==
    <<driver, stack, funcKind, seed, pc, hidx, distribution, pending, inflight,
      new_distribution, result, attempts, round, roundStart, calls, everTerminal>>

vars == <<driverVars, chain>>

config == <<driver, stack, funcKind, seed>>

Drivers == {"run", "run_async_sequential"}

Init ==
    /\ driver \in Drivers
    /\ stack \in Stacks
    /\ funcKind \in FuncKinds
    /\ seed \in Seeds
    /\ distribution = seed
    /\ pc = "distribute"
    /\ hidx = 1
    /\ pending = <<>>
    /\ inflight = <<>>
    /\ new_distribution = <<>>
    /\ result = NoResult
    /\ attempts = [t \in Payloads |-> 0]
    /\ round = 1
    /\ roundStart = seed
    /\ calls = <<>>
    /\ everTerminal = {}
    /\ chain = <<>>

\* --------------------------------------------------- GroupingHeuristicStack

\* A heuristic's error swallowed: the distribution goes on unchanged.
StepResultOrInput ==
    LET r == HeuristicDistribute(stack[hidx], hidx, round, distribution) IN
      IF r.ok THEN r ELSE Ok(distribution)

\* The loop of distribute goes through the heuristics from the last to the first.
StepResultReversed ==
    HeuristicDistribute(stack[Len(stack) + 1 - hidx], Len(stack) + 1 - hidx,
                        round, distribution)

\* heuristic.distribute(distribution) of the next heuristic of the stack.
StepResult == HeuristicDistribute(stack[hidx], hidx, round, distribution)

\* distribute, one iteration of its loop: the next heuristic of the stack takes
\* the distribution; its error leaves distribute and the driver through `?`.
HeuristicStep ==
    /\ pc = "distribute"
    /\ hidx <= Len(stack)
    /\ LET r == StepResult IN
         IF r.ok
         THEN /\ distribution' = r.val
              /\ hidx' = hidx + 1
              /\ UNCHANGED <<pc, result>>
         ELSE /\ result' = r
              /\ pc' = "done"
              /\ UNCHANGED <<distribution, hidx>>
    /\ UNCHANGED <<config, chain, pending, inflight, new_distribution, attempts, round,
                   roundStart, calls, everTerminal>>

\* Groups that are already done are left out of the loop.
ToProcessSkipDone == SelectSeq(distribution, LAMBDA g : ~all_done(g))

\* The groups the for loop iterates over: all of distribution, in order.
ToProcess == distribution

\* distribute returns Ok(distribution); the driver starts its for loop over it
\* with an empty new_distribution.
DistributeReturn ==
    /\ pc = "distribute"
    /\ hidx > Len(stack)
    /\ pending' = ToProcess
    /\ new_distribution' = <<>>
    /\ pc' = "for"
    /\ UNCHANGED <<config, chain, hidx, distribution, inflight, result, attempts, round,
                   roundStart, calls, everTerminal>>

\* The loop takes its groups from the back.
TakeLast ==
    [outcome |-> pending[Len(pending)],
     rest |-> SubSeq(pending, 1, Len(pending) - 1)]

\* `for outcome in distribution`: the group the loop takes next and the groups
\* it leaves for later iterations.
TakeNext == [outcome |-> Head(pending), rest |-> Tail(pending)]

\* The processing function returned reply for group g: an error is kept for
\* the end of the round and the loop goes on with the next group.
CompleteDeferErr(g, reply) ==
    /\ attempts' = Attempted(funcKind, g, attempts)
    /\ pc' = "for"
    /\ IF reply.ok
       THEN /\ new_distribution' = Append(new_distribution, reply.val)
            /\ calls' = Append(calls, [input |-> g, output |-> reply.val])
            /\ UNCHANGED result
       ELSE /\ result' = reply
            /\ UNCHANGED <<new_distribution, calls>>

\* The processing function returned reply for group g: Ok is pushed onto
\* new_distribution, an error leaves the driver through `?`.
Complete(g, reply) ==
    /\ attempts' = Attempted(funcKind, g, attempts)
    /\ IF reply.ok
       THEN /\ new_distribution' = Append(new_distribution, reply.val)
            /\ calls' = Append(calls, [input |-> g, output |-> reply.val])
            /\ pc' = "for"
            /\ UNCHANGED result
       ELSE /\ result' = reply
            /\ pc' = "done"
            /\ UNCHANGED <<new_distribution, calls>>

\* What the processing function may return for group g, the i-th of the round.
FuncResults(g, i) ==
    {Ok(r) : r \in GroupReplies(funcKind, g, attempts)}
        \cup (IF MayFail(funcKind) THEN {FuncError(i)} ELSE {})

\* run: one iteration of the for loop; func is called and returns in place.
CallFunc ==
    /\ driver = "run"
    /\ pc = "for"
    /\ pending # <<>>
    /\ pending' = TakeNext.rest
    /\ \E reply \in FuncResults(TakeNext.outcome, Len(calls) + 1) :
            Complete(TakeNext.outcome, reply)
    /\ UNCHANGED <<config, chain, hidx, distribution, inflight, round, roundStart,
                   everTerminal>>

\* The loop goes on without awaiting the future.
AfterCallNoAwait == "for"

\* The driver's position once it has called func in run_async_sequential:
\* `.await` suspends it until the future completes.
AfterCall == "await"

\* run_async_sequential: the for loop takes the next group and calls func; the
\* driver is suspended on the future.
CallFuncAsync ==
    /\ driver = "run_async_sequential"
    /\ pc = "for"
    /\ pending # <<>>
    /\ inflight' = Append(inflight, TakeNext.outcome)
    /\ pending' = TakeNext.rest
    /\ pc' = AfterCall
    /\ UNCHANGED <<config, chain, hidx, distribution, new_distribution, result, attempts,
                   round, roundStart, calls, everTerminal>>

\* The awaited future completes, and an error it returns is dropped: the loop
\* goes on with the next group.
AwaitReturnSkipErr ==
    /\ driver = "run_async_sequential"
    /\ inflight # <<>>
    /\ inflight' = Tail(inflight)
    /\ \E reply \in FuncResults(Head(inflight), Len(calls) + 1) :
            IF reply.ok
            THEN Complete(Head(inflight), reply)
            ELSE /\ pc' = "for"
                 /\ UNCHANGED <<attempts, new_distribution, calls, result>>
    /\ UNCHANGED <<config, chain, hidx, distribution, pending, round, roundStart,
                   everTerminal>>

\* run_async_sequential: the awaited future completes.
AwaitReturn ==
    /\ driver = "run_async_sequential"
    /\ inflight # <<>>
    /\ inflight' = Tail(inflight)
    /\ \E reply \in FuncResults(Head(inflight), Len(calls) + 1) :
            Complete(Head(inflight), reply)
    /\ UNCHANGED <<config, chain, hidx, distribution, pending, round, roundStart,
                   everTerminal>>

\* The test made with any in place of all.
CheckDoneAny == \E i \in 1..Len(new_distribution) : all_done(new_distribution[i])

\* The test made on the distribution the round processed.
CheckDoneOld == \A i \in 1..Len(distribution) : all_done(distribution[i])

\* The loop gives up after two rounds.
CheckDoneCapped ==
    \/ \A i \in 1..Len(new_distribution) : all_done(new_distribution[i])
    \/ round >= 2

\* The test asks for a group to have been collected.
CheckDoneNonEmpty ==
    /\ new_distribution # <<>>
    /\ \A i \in 1..Len(new_distribution) : all_done(new_distribution[i])

\* The driver's test for leaving the loop.
CheckDone == \A i \in 1..Len(new_distribution) : all_done(new_distribution[i])

\* The driver turns every failure collected back into an Apply for the next round.
NextDistributionReapplied ==
    [i \in 1..Len(new_distribution) |-> all_to_apply(new_distribution[i])]

\* `distribution = new_distribution`: the distribution of the next round.
NextDistribution == new_distribution

\* The for loop is over: return Ok(new_distribution) when every replacement
\* group is all_done, else new_distribution becomes the distribution of the
\* next iteration of the loop.
Check ==
    /\ pc = "for"
    /\ pending = <<>>
    /\ IF CheckDone
       THEN /\ result' = Ok(new_distribution)
            /\ pc' = "done"
            /\ UNCHANGED <<distribution, hidx, round, roundStart, calls,
                           everTerminal>>
       ELSE /\ distribution' = NextDistribution
            /\ everTerminal' =
                   everTerminal \cup TerminalPayloads(new_distribution)
            /\ roundStart' = NextDistribution
            /\ hidx' = 1
            /\ round' = IF round < MaxRound THEN round + 1 ELSE round
            /\ calls' = <<>>
            /\ pc' = "distribute"
            /\ UNCHANGED result
    /\ UNCHANGED <<config, chain, pending, inflight, new_distribution, attempts>>

Next ==
    \/ HeuristicStep
    \/ DistributeReturn
    \/ CallFunc
    \/ CallFuncAsync
    \/ AwaitReturn
    \/ Check

Spec == Init /\ [][Next]_vars

\* Every step of a driver is taken eventually: the driver is polled to
\* completion and the awaited futures of the processing function complete.
FairSpec == Spec /\ WF_vars(Next)

\* --------------------------------- the outcome and group operations, called

\* The payloads of the values handed to the operations.
ValuePayloads == {1, 2}

\* Every ElementalFailure over the payloads.
Failures ==
    {Instrumental(t) : t \in ValuePayloads} \cup {Terminal(t) : t \in ValuePayloads}

\* Every ElementalOutcome over the payloads.
Outcomes ==
    {Apply(t) : t \in ValuePayloads} \cup {Success}
        \cup {Failure(f) : f \in Failures}

SeqsUpTo(S, n) == UNION {[1..k -> S] : k \in 0..n}

\* Every group of at most MaxLen outcomes.
Groups == SeqsUpTo(Outcomes, MaxLen)

\* Every raw element sequence of at most MaxLen payloads, repeats included.
Raws == SeqsUpTo(ValuePayloads, MaxLen)

\* The outcome that holds element i in the distributions handed to the
\* heuristics when it is not a Success: one variant after the other.
Live(i) ==
    CASE i % 3 = 1 -> Apply(i)
      [] i % 3 = 2 -> Failure(Instrumental(i))
      [] i % 3 = 0 -> Failure(Terminal(i))

\* The outcomes of elements 1..n, those of succeeded being Success.
Flat(n, succeeded) ==
    [i \in 1..n |-> IF i \in succeeded THEN Success ELSE Live(i)]

\* flat from its k-th outcome on, cut into groups after the positions of cuts.
RECURSIVE SplitFrom(_, _, _)
SplitFrom(flat, cuts, k) ==
    IF k > Len(flat) THEN <<>>
    ELSE LET e == CHOOSE c \in (cuts \cup {Len(flat)}) :
                    /\ c >= k
                    /\ \A b \in (cuts \cup {Len(flat)}) : b >= k => c <= b
         IN <<SubSeq(flat, k, e)>> \o SplitFrom(flat, cuts, e + 1)

\* The distributions handed to the heuristics: up to MaxElems elements in
\* order, any of them succeeded, grouped in every way; and with empty groups.
Distributions ==
    {SplitFrom(Flat(n, succeeded), cuts, 1) :
        n \in 0..MaxElems, succeeded \in SUBSET (1..MaxElems),
        cuts \in SUBSET (1..(MaxElems - 1))}
        \cup {<<<<>>>>, <<<<>>, <<Apply(1)>>, <<>>>>,
              <<<<Success, Apply(1), Success, Apply(2)>>>>}

\* The sizes new_all_success is called with.
Sizes == 0..MaxLen

\* Every pair of groups shorter than MaxLen.
Pairs ==
    {<<a, b>> : a \in SeqsUpTo(Outcomes, MaxLen - 1),
                b \in SeqsUpTo(Outcomes, MaxLen - 1)}

\* A value of the chain: val of the type, given by operation op with argument arg.
Entry(op, arg, type, val) == [op |-> op, arg |-> arg, type |-> type, val |-> val]

\* The value the caller holds.
Last == chain[Len(chain)]

\* The driver is not running.
DriverIdle ==
    /\ driver = "run"
    /\ stack = <<>>
    /\ funcKind = "identity"
    /\ seed = <<>>
    /\ distribution = <<>>
    /\ pc = "idle"
    /\ hidx = 1
    /\ pending = <<>>
    /\ inflight = <<>>
    /\ new_distribution = <<>>
    /\ result = NoResult
    /\ attempts = [t \in Payloads |-> 0]
    /\ round = 1
    /\ roundStart = <<>>
    /\ calls = <<>>
    /\ everTerminal = {}

ValueInit ==
    /\ DriverIdle
    /\ \/ \E o \in Outcomes : chain = <<Entry("input", 0, "outcome", o)>>
       \/ \E f \in Failures : chain = <<Entry("input", 0, "failure", f)>>
       \/ \E xs \in Raws : chain = <<Entry("input", 0, "raw", xs)>>
       \/ \E g \in Groups : chain = <<Entry("input", 0, "group", g)>>
       \/ \E d \in Distributions :
            chain = <<Entry("input", 0, "distribution", d)>>
       \/ \E n \in Sizes : chain = <<Entry("input", 0, "size", n)>>
       \/ \E ab \in Pairs : chain = <<Entry("input", 0, "pair", ab)>>

\* The caller applies an operation to the value it holds.
Call(type, op, arg, outType, val) ==
    /\ chain # <<>>
    /\ Len(chain) <= MaxOps
    /\ Last.type = type
    /\ chain' = Append(chain, Entry(op, arg, outType, val))
    /\ UNCHANGED driverVars

CallToTerminal ==
    Call("outcome", "to_terminal", 0, "outcome", to_terminal(Last.val))

CallToInstrumental ==
    Call("outcome", "to_instrumental", 0, "outcome", to_instrumental(Last.val))

CallToApply ==
    Call("outcome", "to_apply", 0, "outcome", to_apply(Last.val))

CallFailureToTerminal ==
    Call("failure", "to_terminal", 0, "failure", failure_to_terminal(Last.val))

CallFailureToInstrumental ==
    Call("failure", "to_instrumental", 0, "failure",
         failure_to_instrumental(Last.val))

CallIntoInner ==
    Call("failure", "into_inner", 0, "payload", into_inner(Last.val))

CallNewApply ==
    Call("raw", "new_apply", 0, "group", new_apply(Last.val))

CallAllToTerminal ==
    Call("group", "all_to_terminal", 0, "group", all_to_terminal(Last.val))

CallAllToApply ==
    Call("group", "all_to_apply", 0, "group", all_to_apply(Last.val))

CallIntoOriginal ==
    Call("group", "into_original", 0, "raw", into_original(Last.val))

CallChunking ==
    \E size \in ChunkSizes :
        Call("distribution", "Chunking", size, "distribution",
             Chunking(size, Last.val))

CallDropSuccess ==
    Call("distribution", "DropSuccess", 0, "distribution",
         DropSuccess(Last.val))

CallIsDone ==
    Call("outcome", "is_done", 0, "bool", is_done(Last.val))

CallNewAllSuccess ==
    Call("size", "new_all_success", 0, "group", new_all_success(Last.val))

CallNewApplyDistribution ==
    Call("raw", "new_apply_distribution", 0, "distribution",
         new_apply_distribution(Last.val))

CallAllSucceeded ==
    Call("group", "all_succeeded", 0, "bool", all_succeeded(Last.val))

CallAllDone ==
    Call("group", "all_done", 0, "bool", all_done(Last.val))

\* a == b on two groups.
CallEq ==
    Call("pair", "eq", 0, "bool", group_eq(Last.val[1], Last.val[2]))

ValueNext ==
    \/ CallToTerminal
    \/ CallToInstrumental
    \/ CallToApply
    \/ CallFailureToTerminal
    \/ CallFailureToInstrumental
    \/ CallIntoInner
    \/ CallNewApply
    \/ CallAllToTerminal
    \/ CallAllToApply
    \/ CallIntoOriginal
    \/ CallChunking
    \/ CallDropSuccess
    \/ CallIsDone
    \/ CallNewAllSuccess
    \/ CallNewApplyDistribution
    \/ CallAllSucceeded
    \/ CallAllDone
    \/ CallEq

ValueSpec == ValueInit /\ [][ValueNext]_vars

\* ------------------------------------------------------------------ claims

\* An outcome that is Success or Failure(Terminal), read off its variant.
Settled(o) == o.tag = "Success" \/ (o.tag = "Failure" /\ o.kind = "Terminal")

\* Every outcome of every group of d is Success or Failure(Terminal).
AllSettled(d) == \A i \in 1..Len(d) : \A j \in 1..Len(d[i]) : Settled(d[i][j])

\* The replacement groups of this round's completed calls, in call order.
Outputs == [i \in 1..Len(calls) |-> calls[i].output]

\* The groups this round's completed calls were given, in call order.
Inputs == [i \in 1..Len(calls) |-> calls[i].input]

\* The for loop of the current round has taken every group and no call is
\* outstanding: the round's processing is over.
RoundEnd == pc = "for" /\ pending = <<>> /\ inflight = <<>>

\* The driver has reached the processing phase of the current round.
Processing == pc \in {"for", "await"} \/ (pc = "done" /\ result.src # "heuristic")

\* C1: whenever a driver returns Ok(d), every outcome of every group of d is
\* Success or Failure(Terminal), and d is exactly the list of replacement
\* groups the processing function returned in the last round, one per group of
\* that round's distribution, in processing order.
C1_ReturnsOnlyDone ==
    result.ok =>
        /\ pc = "done"
        /\ AllSettled(result.val)
        /\ Len(calls) = Len(distribution)
        /\ result.val = Outputs

\* A driver has returned Ok after a retry round, with a Success and a
\* Failure(Terminal) among the outcomes of two or more groups.
C1_Witness ==
    /\ result.ok
    /\ round >= 2
    /\ Len(result.val) >= 2
    /\ \E i \in 1..Len(result.val) : \E j \in 1..Len(result.val[i]) :
            result.val[i][j].tag = "Failure"
    /\ \E i \in 1..Len(result.val) : \E j \in 1..Len(result.val[i]) :
            result.val[i][j].tag = "Success"

\* C2: an element whose outcome was Failure(Terminal) at the end of a round is
\* not in any group passed to the processing function in a later round, and it
\* is present in the distribution the driver finally returns.
C2_TerminalShortCircuit ==
    /\ \A i \in 1..Len(calls) :
            GroupPayloads(calls[i].input) \cap everTerminal = {}
    /\ \A i \in 1..Len(inflight) :
            GroupPayloads(inflight[i]) \cap everTerminal = {}
    /\ result.ok => everTerminal \subseteq DistPayloads(result.val)

\* C3: in every round the whole heuristic stack has been applied, in list
\* order, before the first call of the processing function; the groups the
\* function is called with are the groups distribute produced, each once and
\* in their order, and the replacement groups are collected in that order.
C3_DistributeThenProcessInOrder ==
    /\ (calls # <<>> \/ inflight # <<>>) => Processing
    /\ Processing =>
        /\ hidx = Len(stack) + 1
        /\ distribute(stack, round, roundStart) = Ok(distribution)
        /\ Len(calls) <= Len(distribution)
        /\ Inputs = SubSeq(distribution, 1, Len(calls))
        /\ new_distribution = Outputs
        /\ (result = NoResult =>
                inflight \o pending =
                    SubSeq(distribution, Len(calls) + 1, Len(distribution)))
        /\ (result.ok => Len(calls) = Len(distribution))

\* The second round of a two-heuristic stack has processed all of the two or
\* more groups that distribute produced.
C3_Witness ==
    /\ RoundEnd
    /\ round = 2
    /\ Len(stack) = 2
    /\ Len(calls) >= 2
    /\ distribution # seed

\* C4: in run_async_sequential at most one call of the processing function is
\* outstanding; the call for a group is outstanding only when the calls for
\* all earlier groups of the round have completed, and no call is outstanding
\* when a round starts or when the driver has returned.
C4_OneCallInFlight ==
    driver = "run_async_sequential" =>
        /\ Len(inflight) <= 1
        /\ (inflight # <<>> =>
                /\ pc = "await"
                /\ Len(calls) < Len(distribution)
                /\ inflight[1] = distribution[Len(calls) + 1]
                /\ Len(pending) = Len(distribution) - Len(calls) - 1)
        /\ (pc \in {"distribute", "done"} => inflight = <<>>)

\* In a retry round of run_async_sequential the call for the second group is
\* outstanding, the call for the first having completed.
C4_Witness ==
    /\ driver = "run_async_sequential"
    /\ round >= 2
    /\ Len(inflight) = 1
    /\ Len(calls) = 1

\* Two groups of two outcomes.
TwoByTwo(a, b, c, d) == <<<<a, b>>, <<c, d>>>>

\* The driver has returned, or the processing of the current round is over.
RoundOver == RoundEnd \/ (pc = "done" /\ result.src = "none")

\* The retry scenario: run_async_sequential with stack [Chunking(2)] on four
\* Apply elements and a processing function that fails an element
\* instrumentally on its first attempt and succeeds on later ones.
RetryScenario ==
    /\ driver = "run_async_sequential"
    /\ stack = <<ChunkingH(2)>>
    /\ funcKind = "retry_once"
    /\ seed = new_apply_distribution(<<1, 2, 3, 4>>)

\* What the retry scenario does in its two rounds, but for the number of
\* calls of the processing function per round, which is calls.
RetryRounds(ncalls) ==
    /\ round <= 2
    /\ (round = 1 /\ RoundOver =>
            /\ Len(calls) = ncalls
            /\ pc # "done"
            /\ Flatten(Inputs) = <<Apply(1), Apply(2), Apply(3), Apply(4)>>
            /\ Flatten(Outputs) =
                   <<Failure(Instrumental(1)), Failure(Instrumental(2)),
                     Failure(Instrumental(3)), Failure(Instrumental(4))>>)
    /\ (round = 2 /\ RoundOver =>
            /\ Len(calls) = ncalls
            /\ Flatten(Inputs) =
                   <<Failure(Instrumental(1)), Failure(Instrumental(2)),
                     Failure(Instrumental(3)), Failure(Instrumental(4))>>
            /\ Flatten(Outputs) = <<Success, Success, Success, Success>>)
    /\ (pc = "done" =>
            /\ round = 2
            /\ result = Ok(TwoByTwo(Success, Success, Success, Success)))

\* C5 as the spec states it: in the retry scenario the driver returns after
\* exactly 2 rounds, and the processing function is invoked 4 times in round 1
\* (all outcomes Instrumental) and 4 times in round 2 (all outcomes Success).
C5_RetryConvergenceFourCalls == RetryScenario => RetryRounds(4)

\* C5, amended: in the retry scenario the driver returns after exactly 2
\* rounds; the processing function is invoked 2 times in each round, once per
\* group of two in the order of the groups, and the 4 outcomes it returns are
\* all Instrumental in round 1 and all Success in round 2.
C5_RetryConvergence ==
    /\ [](RetryScenario =>
            /\ RetryRounds(2)
            /\ (RoundOver =>
                    /\ Len(Inputs[1]) = 2
                    /\ Len(Inputs[2]) = 2))
    /\ (RetryScenario ~> (pc = "done" /\ result.ok))

\* The retry scenario has returned, in its second round.
C5_Witness == RetryScenario /\ pc = "done" /\ round = 2 /\ result.ok

\* The always-success scenario: run with stack [Chunking(2)] on one group of
\* n Apply elements, n >= 1, and a processing function that returns Success
\* for every element.
ConvergenceScenario(n) ==
    /\ driver = "run"
    /\ stack = <<ChunkingH(2)>>
    /\ funcKind = "always_success"
    /\ seed = new_apply_distribution(Elements(n))

\* C6: in the always-success scenario the synchronous driver returns after
\* exactly 1 round, and every group of the result holds only Success entries,
\* one per element, in groups of two with the remainder last.
C6_Convergence ==
    /\ [](\A n \in 1..MaxElems : ConvergenceScenario(n) =>
            /\ round = 1
            /\ (pc = "done" =>
                    /\ result.ok
                    /\ Len(result.val) = (n + 1) \div 2
                    /\ Len(Flatten(result.val)) = n
                    /\ \A i \in 1..Len(result.val) :
                         \A j \in 1..Len(result.val[i]) :
                            result.val[i][j].tag = "Success"))
    /\ ((\E n \in 1..MaxElems : ConvergenceScenario(n)) ~> pc = "done")

\* The always-success scenario has returned for four elements.
C6_Witness == ConvergenceScenario(4) /\ pc = "done" /\ Len(result.val) = 2

\* The seeded scenario of test_async_run_sequential_success: stack
\* [Chunking(2)], an identity processing function, one group of 4 Success.
SeededScenario ==
    /\ stack = <<ChunkingH(2)>>
    /\ funcKind = "identity"
    /\ seed = <<new_all_success(4)>>

\* C7: a driver returns Ok only after a full round: the heuristic stack was
\* applied and the processing function was invoked once per resulting group,
\* even when every element of the seed is done; in the seeded scenario that is
\* exactly 2 invocations in round 1 and a result of 2 groups of Success.
C7_AtLeastOneRound ==
    /\ result.ok =>
        /\ hidx = Len(stack) + 1
        /\ Len(calls) = Len(distribute(stack, round, roundStart).val)
    /\ SeededScenario =>
        /\ round = 1
        /\ (RoundOver =>
                /\ Len(calls) = 2
                /\ new_distribution = TwoByTwo(Success, Success, Success, Success))
        /\ (pc = "done" =>
                result = Ok(TwoByTwo(Success, Success, Success, Success)))

\* The seeded scenario has returned.
C7_Witness == SeededScenario /\ pc = "done" /\ result.ok /\ Len(calls) = 2

\* The heuristics of the stack that fail in the current round.
FailingNow == {i \in 1..Len(stack) :
                  stack[i].kind = "FailAt" /\ stack[i].arg = round}

\* C8: when a heuristic of the stack fails in the distribute step of a round,
\* the driver returns that heuristic's error: the later heuristics and the
\* processing function are not invoked in that round, and the driver takes no
\* further step, so no later round starts and distribute is not retried.
C8_HeuristicErrorAborts ==
    /\ \A i \in FailingNow : hidx <= i
    /\ (pc = "distribute" /\ hidx \in FailingNow) => result = NoResult
    /\ result.src = "heuristic" =>
        /\ pc = "done"
        /\ hidx \in FailingNow
        /\ result = HeuristicError(hidx)
        /\ calls = <<>>
        /\ inflight = <<>>
        /\ ~ENABLED Next

\* The second heuristic of a stack failed in the second round and the driver
\* returned its error.
C8_Witness ==
    /\ result.src = "heuristic"
    /\ round = 2
    /\ result.at = 2
    /\ pc = "done"

\* A configuration in which no heuristic fails and the processing function
\* never fails and leaves an outcome not done in every round.
StubbornScenario ==
    /\ NeverFails(stack)
    /\ funcKind = "stubborn"
    /\ DistPayloads(seed) # {}

\* C9: the loop has no round cap: a driver whose heuristics and processing
\* function never fail never returns while every round leaves an outcome that
\* is not done, however many rounds have gone by; it keeps starting rounds.
C9_NoRoundCap ==
    /\ [](StubbornScenario => (result = NoResult /\ pc # "done"))
    /\ [](RoundEnd /\ ~AllSettled(new_distribution) =>
            (result = NoResult /\ ENABLED Check))
    /\ (StubbornScenario => []<>(pc = "distribute" /\ hidx = 1))

\* The stubborn scenario is at the end of a round past the point where the
\* round counter saturates, with an outcome not done.
C9_Witness ==
    /\ StubbornScenario
    /\ round = MaxRound
    /\ RoundEnd
    /\ calls # <<>>
    /\ ~AllSettled(new_distribution)

\* A configuration in which no heuristic fails, drops or reclassifies, and
\* the processing function never fails, keeps done outcomes done and makes
\* every element done by its AttemptLimit-th attempt.
BoundedScenario ==
    /\ NeverFails(stack)
    /\ funcKind \in {"bounded", "always_success"}

\* C10: in the bounded scenario the driver eventually returns Ok, within
\* AttemptLimit rounds, and every outcome of the result is Success or
\* Failure(Terminal).
C10_EventualTermination ==
    /\ [](BoundedScenario => round <= AttemptLimit)
    /\ (BoundedScenario ~>
            (pc = "done" /\ result.ok /\ AllSettled(result.val)))

\* The bounded scenario has returned in its last allowed round, with an
\* element that ended in Failure(Terminal).
C10_Witness ==
    /\ BoundedScenario
    /\ funcKind = "bounded"
    /\ pc = "done"
    /\ result.ok
    /\ round = AttemptLimit
    /\ TerminalPayloads(result.val) # {}

\* ------------------------------------------- run as a relation on its state

\* The state of a driver as the state of run: a group whose call is awaited
\* counts as not yet taken by the for loop.
AsRun ==
    [pc |-> IF pc = "await" THEN "for" ELSE pc,
     hidx |-> hidx,
     distribution |-> distribution,
     pending |-> inflight \o pending,
     new_distribution |-> new_distribution,
     result |-> result,
     attempts |-> attempts,
     round |-> round,
     calls |-> calls]

\* run, self.distribute: the next heuristic of the stack, or its error.
RunHeuristic(s, t) ==
    /\ s.pc = "distribute"
    /\ s.hidx <= Len(stack)
    /\ LET r == HeuristicDistribute(stack[s.hidx], s.hidx, s.round,
                                    s.distribution) IN
         t = IF r.ok
             THEN [s EXCEPT !.distribution = r.val, !.hidx = s.hidx + 1]
             ELSE [s EXCEPT !.result = r, !.pc = "done"]

\* run: distribute has returned, the for loop starts.
RunEnterLoop(s, t) ==
    /\ s.pc = "distribute"
    /\ s.hidx > Len(stack)
    /\ t = [s EXCEPT !.pending = s.distribution,
                     !.new_distribution = <<>>,
                     !.pc = "for"]

\* run: one iteration of the for loop, new_distribution.push(func(outcome)?).
RunCall(s, t) ==
    /\ s.pc = "for"
    /\ s.pending # <<>>
    /\ LET g == Head(s.pending)
           att == Attempted(funcKind, g, s.attempts)
       IN
         \/ \E r \in GroupReplies(funcKind, g, s.attempts) :
                t = [s EXCEPT !.pending = Tail(s.pending),
                              !.attempts = att,
                              !.new_distribution = Append(s.new_distribution, r),
                              !.calls = Append(s.calls,
                                               [input |-> g, output |-> r])]
         \/ /\ MayFail(funcKind)
            /\ t = [s EXCEPT !.pending = Tail(s.pending),
                             !.attempts = att,
                             !.result = FuncError(Len(s.calls) + 1),
                             !.pc = "done"]

\* run: the test after the for loop, and the next iteration of the loop.
RunCheck(s, t) ==
    /\ s.pc = "for"
    /\ s.pending = <<>>
    /\ t = IF \A i \in 1..Len(s.new_distribution) :
                   \A j \in 1..Len(s.new_distribution[i]) :
                       is_done(s.new_distribution[i][j])
           THEN [s EXCEPT !.result = Ok(s.new_distribution), !.pc = "done"]
           ELSE [s EXCEPT !.distribution = s.new_distribution,
                          !.hidx = 1,
                          !.round = IF s.round < MaxRound
                                    THEN s.round + 1 ELSE s.round,
                          !.calls = <<>>,
                          !.pc = "distribute"]

\* run: one step from state s to state t.
RunStep(s, t) ==
    \/ RunHeuristic(s, t)
    \/ RunEnterLoop(s, t)
    \/ RunCall(s, t)
    \/ RunCheck(s, t)

\* C11: the two drivers implement the same algorithm: every step of run is a
\* step of the loop of run, and every step of run_async_sequential either is
\* the call of the processing function, which changes nothing of the state of
\* run, or is a step run takes from the same state with the same reply of the
\* processing function: same distribute steps, same calls with the same
\* groups in the same order, same rounds, same result or error.
C11_DriversAgree ==
    [][\/ driver = "run" /\ RunStep(AsRun, AsRun')
       \/ /\ driver = "run_async_sequential"
          /\ \/ pc = "for" /\ pc' = "await" /\ AsRun' = AsRun
             \/ RunStep(AsRun, AsRun')]_vars

\* run_async_sequential has returned Ok after a retry round of two or more
\* calls.
C11_Witness ==
    /\ driver = "run_async_sequential"
    /\ pc = "done"
    /\ result.ok
    /\ round >= 2
    /\ Len(calls) >= 2

\* ----------------------------------- claims on the outcomes and the groups

\* The positions of the chain that hold a value given by an operation.
Steps == 2..Len(chain)

\* The conversions of an outcome, and of a failure.
Conversions == {"to_terminal", "to_instrumental", "to_apply"}

\* C12: for every raw element sequence xs, new_apply(xs).into_original() is
\* xs: same elements, same order, same multiplicity.
C12_RoundTrip ==
    \A k \in Steps :
        (/\ k >= 3
         /\ chain[k].op = "into_original"
         /\ chain[k - 1].op = "new_apply") =>
            chain[k].val = chain[k - 2].val

\* into_original was applied to new_apply of a sequence of three elements
\* with a repeated one.
C12_Witness ==
    /\ Len(chain) = 3
    /\ chain[1].type = "raw"
    /\ chain[1].val = <<2, 1, 2>>
    /\ chain[2].op = "new_apply"
    /\ chain[3].op = "into_original"

\* C13: to_terminal, to_instrumental and to_apply of an outcome, and
\* to_terminal and to_instrumental of a failure, are idempotent: applied to
\* their own result they return it unchanged.
C13_IdempotentConversions ==
    \A k \in Steps :
        (/\ k >= 3
         /\ chain[k].type \in {"outcome", "failure"}
         /\ chain[k].op \in Conversions
         /\ chain[k - 1].op = chain[k].op) =>
            chain[k].val = chain[k - 1].val

\* to_terminal was applied twice to a failure that was instrumental.
C13_Witness ==
    /\ Len(chain) = 3
    /\ chain[1].type = "failure"
    /\ chain[1].val = Instrumental(2)
    /\ chain[2].op = "to_terminal"
    /\ chain[3].op = "to_terminal"
    /\ chain[3].val = Terminal(2)

\* The positions of the Success entries of a group.
SuccessPositions(g) == {i \in 1..Len(g) : g[i].tag = "Success"}

TerminalPositions(g) ==
    {i \in 1..Len(g) : g[i].tag = "Failure" /\ g[i].kind = "Terminal"}

\* C15 as the spec states it: of to_terminal, to_instrumental, to_apply,
\* all_to_terminal and all_to_apply, only to_apply and all_to_apply change an
\* outcome that is Failure(Terminal(t)); every other one leaves it as it is.
C15_TerminalOneWay ==
    \A k \in Steps :
        /\ (/\ chain[k].type = "outcome"
            /\ chain[k].op \in {"to_terminal", "to_instrumental"}
            /\ chain[k - 1].val.tag = "Failure"
            /\ chain[k - 1].val.kind = "Terminal") =>
                chain[k].val = chain[k - 1].val
        /\ (chain[k].type = "group" /\ chain[k].op = "all_to_terminal") =>
                \A i \in TerminalPositions(chain[k - 1].val) :
                    chain[k].val[i] = chain[k - 1].val[i]

\* C15: of the conversions, to_terminal and all_to_terminal leave an outcome
\* that is Failure(Terminal(t)) as it is; to_instrumental makes it
\* Failure(Instrumental(t)), and to_apply and all_to_apply make it Apply(t).
C15_TerminalKeptByToTerminal ==
    \A k \in Steps :
        /\ (/\ chain[k].type = "outcome"
            /\ chain[k].op \in Conversions
            /\ chain[k - 1].val.tag = "Failure"
            /\ chain[k - 1].val.kind = "Terminal") =>
                LET t == chain[k - 1].val.val
                IN  chain[k].val =
                        CASE chain[k].op = "to_terminal" ->
                                [tag |-> "Failure", kind |-> "Terminal", val |-> t]
                          [] chain[k].op = "to_instrumental" ->
                                [tag |-> "Failure", kind |-> "Instrumental", val |-> t]
                          [] chain[k].op = "to_apply" ->
                                [tag |-> "Apply", kind |-> "None", val |-> t]
        /\ (/\ chain[k].type = "group"
            /\ chain[k].op \in {"all_to_terminal", "all_to_apply"}) =>
                \A i \in TerminalPositions(chain[k - 1].val) :
                    LET t == chain[k - 1].val[i].val
                    IN  chain[k].val[i] =
                            IF chain[k].op = "all_to_terminal"
                            THEN [tag |-> "Failure", kind |-> "Terminal", val |-> t]
                            ELSE [tag |-> "Apply", kind |-> "None", val |-> t]

\* to_instrumental was applied to a terminal failure and to_terminal to its
\* result.
C15_Witness ==
    /\ Len(chain) = 3
    /\ chain[2].type = "outcome"
    /\ chain[1].val = Failure(Terminal(1))
    /\ chain[2].op = "to_instrumental"
    /\ chain[2].val = Failure(Instrumental(1))
    /\ chain[3].op = "to_terminal"
    /\ chain[3].val = Failure(Terminal(1))

\* C16 as the doc comment of all_to_apply states it: every outcome of
\* g.all_to_apply() is an Apply, whatever it was in g.
C16_AllToApplyAllApply ==
    \A k \in Steps :
        chain[k].op = "all_to_apply" =>
            \A i \in 1..Len(chain[k].val) : chain[k].val[i].tag = "Apply"

\* The positions of the entries of a group that are not Success.
LivePositions(g) == {i \in 1..Len(g) : g[i].tag # "Success"}

\* The position of the n-th entry of a group that is not Success.
LivePosition(g, n) ==
    CHOOSE i \in LivePositions(g) :
        Cardinality({j \in LivePositions(g) : j <= i}) = n

\* C17: into_original returns the payloads of the outcomes that are not
\* Success (Apply, Failure(Instrumental), Failure(Terminal)), in their order
\* and with multiplicity; its length is the number of those outcomes.
C17_IntoOriginalExact ==
    \A k \in Steps :
        chain[k].op = "into_original" =>
            LET g == chain[k - 1].val
                r == chain[k].val
            IN  /\ Len(r) = Cardinality(LivePositions(g))
                /\ \A n \in 1..Len(r) : r[n] = g[LivePosition(g, n)].val

\* into_original was applied to a group with a terminal failure, a Success
\* and an Apply of the same payload.
C17_Witness ==
    /\ Len(chain) = 2
    /\ chain[2].op = "into_original"
    /\ chain[1].val = <<Failure(Terminal(1)), Success, Apply(1)>>
    /\ chain[2].val = <<1, 1>>

\* ------------------------------------------------- claims on the heuristics

\* The groups of a distribution one after the other, the last group last.
RECURSIVE Joined(_)
Joined(d) ==
    IF d = <<>> THEN <<>>
    ELSE Joined(SubSeq(d, 1, Len(d) - 1)) \o d[Len(d)]

\* Four elements A, B, C, D in one group.
ABCD ==
    <<[tag |-> "Apply", kind |-> "None", val |-> 1],
      [tag |-> "Failure", kind |-> "Instrumental", val |-> 2],
      [tag |-> "Failure", kind |-> "Terminal", val |-> 3],
      [tag |-> "Apply", kind |-> "None", val |-> 4]>>

\* C18: Chunking(size) emits groups of at most size outcomes, every one but
\* the last of exactly size, whose concatenation is the concatenation of the
\* input groups; Chunking(2) of [A,B,C,D] is [[A,B],[C,D]] and Chunking(3) of
\* it is [[A,B,C],[D]].
C18_Chunking ==
    \A k \in Steps :
        chain[k].op = "Chunking" =>
            LET size == chain[k].arg
                d == chain[k - 1].val
                r == chain[k].val
            IN  /\ \A i \in 1..Len(r) : Len(r[i]) <= size
                /\ \A i \in 1..(Len(r) - 1) : Len(r[i]) = size
                /\ Joined(r) = Joined(d)
                /\ (d = <<ABCD>> /\ size = 2) =>
                        r = <<<<ABCD[1], ABCD[2]>>, <<ABCD[3], ABCD[4]>>>>
                /\ (d = <<ABCD>> /\ size = 3) =>
                        r = <<<<ABCD[1], ABCD[2], ABCD[3]>>, <<ABCD[4]>>>>

\* Chunking(3) was applied to four elements that came in groups of one and
\* three, and left a remainder of one.
C18_Witness ==
    /\ Len(chain) = 2
    /\ chain[2].op = "Chunking"
    /\ chain[2].arg = 3
    /\ chain[1].val = <<<<ABCD[1]>>, <<ABCD[2], ABCD[3], ABCD[4]>>>>
    /\ chain[2].val = <<<<ABCD[1], ABCD[2], ABCD[3]>>, <<ABCD[4]>>>>

\* C19: DropSuccess removes the Success entries of every group and nothing
\* else: the outcomes that are not Success stay in their group, in their
\* order, with their classification and payload; [Success, Apply(x), Success,
\* Apply(y)] becomes [Apply(x), Apply(y)].
C19_DropSuccess ==
    \A k \in Steps :
        chain[k].op = "DropSuccess" =>
            LET d == chain[k - 1].val
                r == chain[k].val
            IN  /\ Len(r) = Len(d)
                /\ \A i \in 1..Len(r) :
                    /\ Len(r[i]) = Cardinality(LivePositions(d[i]))
                    /\ \A n \in 1..Len(r[i]) :
                            r[i][n] = d[i][LivePosition(d[i], n)]
                /\ d = <<<<Success, Apply(1), Success, Apply(2)>>>> =>
                        r = <<<<Apply(1), Apply(2)>>>>

\* DropSuccess was applied to two groups that hold a Success each, next to
\* a terminal failure and to live outcomes.
C19_Witness ==
    /\ Len(chain) = 2
    /\ chain[2].op = "DropSuccess"
    /\ chain[1].val = <<<<Success, ABCD[2]>>, <<ABCD[3], Success>>>>
    /\ chain[2].val = <<<<ABCD[2]>>, <<ABCD[3]>>>>

\* ------------------------------------------------ claims on the stack

\* hn(...h1(d)) for the heuristics h1..hn of s, none of which fails, at their
\* n-th invocation.
RECURSIVE Composed(_, _, _)
Composed(s, n, d) ==
    IF s = <<>> THEN d
    ELSE HeuristicDistribute(s[Len(s)], Len(s), n,
                             Composed(SubSeq(s, 1, Len(s) - 1), n, d)).val

\* Whether the i-th heuristic of the stack fails in the current round.
Fails(i) == stack[i].kind = "FailAt" /\ stack[i].arg = round

\* C20: distribute applies the heuristics in list order, each to the output
\* of the one before it: when all of h1..hn succeed the loop of the driver
\* gets hn(...h1(d)), which is d for an empty stack; when hi is the first to
\* fail the result is the error of hi, the heuristics after hi are not
\* invoked and no distribution is returned.
C20_DistributeInOrder ==
    /\ pc = "distribute" =>
        /\ hidx \in 1..(Len(stack) + 1)
        /\ \A j \in 1..(hidx - 1) : ~Fails(j)
        /\ distribution = Composed(SubSeq(stack, 1, hidx - 1), round, roundStart)
    /\ pc \in {"for", "await"} =>
        /\ hidx = Len(stack) + 1
        /\ \A j \in 1..Len(stack) : ~Fails(j)
        /\ distribution = Composed(stack, round, roundStart)
        /\ stack = <<>> => distribution = roundStart
    /\ result.src = "heuristic" =>
        /\ pc = "done"
        /\ hidx \in 1..Len(stack)
        /\ Fails(hidx)
        /\ \A j \in 1..(hidx - 1) : ~Fails(j)
        /\ result = [ok |-> FALSE, src |-> "heuristic", at |-> hidx, val |-> <<>>]
        /\ distribution = Composed(SubSeq(stack, 1, hidx - 1), round, roundStart)
        /\ ~ENABLED HeuristicStep

\* distribute has returned the output of Chunking(3) applied to the output
\* of Chunking(2) applied to four elements in one group.
C20_Witness ==
    /\ pc = "for"
    /\ stack = <<ChunkingH(2), ChunkingH(3)>>
    /\ Len(roundStart) = 1
    /\ Len(roundStart[1]) = 4
    /\ Len(distribution) = 2
    /\ Len(distribution[1]) = 3

\* ------------------------------------ claims on conservation and on queries

\* The payloads of the outcomes of a group that are not Success, in order.
LivePayloads(g) ==
    [n \in 1..Cardinality(LivePositions(g)) |-> g[LivePosition(g, n)].val]

\* C21: to_terminal and to_instrumental of a failure keep its payload, which
\* into_inner returns whatever conversions came before it; and for every
\* group g, into_original of all_to_terminal(g) and of all_to_apply(g) is
\* into_original(g): the payloads of its non-Success outcomes, in order.
C21_PayloadConservation ==
    \A k \in Steps :
        /\ (chain[k].type = "failure" /\ chain[k].op \in Conversions) =>
                chain[k].val.val = chain[k - 1].val.val
        /\ chain[k].op = "into_inner" =>
                \A j \in 1..(k - 1) : chain[k].val = chain[j].val.val
        /\ chain[k].op = "into_original" =>
                \A j \in 1..(k - 1) :
                    (\A i \in (j + 1)..(k - 1) :
                        chain[i].op \in {"all_to_terminal", "all_to_apply"}) =>
                            /\ chain[k].val = LivePayloads(chain[j].val)
                            /\ chain[k].val = into_original(chain[j].val)

\* into_original was applied to all_to_apply of a group with a terminal
\* failure, a Success and an instrumental failure.
C21_Witness ==
    /\ Len(chain) = 3
    /\ chain[1].type = "group"
    /\ chain[1].val =
           <<Failure(Terminal(1)), Success, Failure(Instrumental(2))>>
    /\ chain[2].op = "all_to_apply"
    /\ chain[3].op = "into_original"
    /\ chain[3].val = <<1, 2>>

\* to_terminal and to_apply of an outcome, read off its variant.
AsTerminal(o) ==
    IF o.tag = "Success" THEN o
    ELSE [tag |-> "Failure", kind |-> "Terminal", val |-> o.val]

AsApply(o) ==
    IF o.tag = "Success" THEN o
    ELSE [tag |-> "Apply", kind |-> "None", val |-> o.val]

\* C22: all_to_terminal(g) and all_to_apply(g) are as long as g and their
\* i-th outcome is to_terminal, to_apply of the i-th outcome of g; every
\* outcome of all_to_terminal(g) is Success or Failure(Terminal) of the
\* payload it had, so all_done holds of it.
C22_BulkElementWise ==
    \A k \in Steps :
        /\ chain[k].op = "all_to_terminal" =>
            LET g == chain[k - 1].val
                r == chain[k].val
            IN  /\ Len(r) = Len(g)
                /\ \A i \in 1..Len(g) :
                    /\ r[i] = to_terminal(g[i])
                    /\ r[i] = AsTerminal(g[i])
                /\ all_done(r)
        /\ chain[k].op = "all_to_apply" =>
            LET g == chain[k - 1].val
                r == chain[k].val
            IN  /\ Len(r) = Len(g)
                /\ \A i \in 1..Len(g) :
                    /\ r[i] = to_apply(g[i])
                    /\ r[i] = AsApply(g[i])
        /\ (chain[k].op = "all_done" /\ chain[k - 1].op = "all_to_terminal") =>
                chain[k].val = TRUE

\* all_done was asked of all_to_terminal of a group of an Apply, an
\* instrumental failure and a Success.
C22_Witness ==
    /\ Len(chain) = 3
    /\ chain[1].type = "group"
    /\ chain[1].val = <<Apply(1), Failure(Instrumental(2)), Success>>
    /\ chain[2].op = "all_to_terminal"
    /\ chain[2].val = <<Failure(Terminal(1)), Failure(Terminal(2)), Success>>
    /\ chain[3].op = "all_done"
    /\ chain[3].val = TRUE

\* C23: is_done holds of Success and of Failure(Terminal) and of no other
\* outcome; all_done(g) holds iff every outcome of g is one of these and
\* all_succeeded(g) iff every outcome of g is Success, so all_succeeded
\* implies all_done and both hold of the empty group; new_all_success(n) is a
\* group of n Success entries, of which both hold.
C23_DoneQueries ==
    \A k \in Steps :
        /\ chain[k].op = "is_done" =>
            /\ chain[k].val = Settled(chain[k - 1].val)
            /\ chain[k - 1].val.tag = "Apply" => chain[k].val = FALSE
            /\ chain[k - 1].val.kind = "Instrumental" => chain[k].val = FALSE
        /\ chain[k].op = "all_done" =>
            /\ chain[k].val =
                   (\A i \in 1..Len(chain[k - 1].val) :
                        Settled(chain[k - 1].val[i]))
            /\ chain[k - 1].val = <<>> => chain[k].val = TRUE
        /\ chain[k].op = "all_succeeded" =>
            /\ chain[k].val =
                   (\A i \in 1..Len(chain[k - 1].val) :
                        chain[k - 1].val[i].tag = "Success")
            /\ chain[k - 1].val = <<>> => chain[k].val = TRUE
            /\ chain[k].val = TRUE => all_done(chain[k - 1].val)
        /\ chain[k].op = "new_all_success" =>
            /\ Len(chain[k].val) = chain[k - 1].val
            /\ \A i \in 1..Len(chain[k].val) :
                    chain[k].val[i].tag = "Success"
        /\ (/\ chain[k].op \in {"all_done", "all_succeeded"}
            /\ chain[k - 1].op = "new_all_success") =>
                chain[k].val = TRUE

\* all_done was asked of new_all_success(2).
C23_Witness ==
    /\ Len(chain) = 3
    /\ chain[1].type = "size"
    /\ chain[1].val = 2
    /\ chain[2].op = "new_all_success"
    /\ Len(chain[2].val) = 2
    /\ chain[3].op = "all_done"
    /\ chain[3].val = TRUE

\* C24: new_apply_distribution(xs) is a distribution of one group, which
\* holds Apply(x) for every x of xs in order, an empty group when xs is
\* empty: the seed is not chunked.
C24_SeedIsOneGroup ==
    \A k \in Steps :
        chain[k].op = "new_apply_distribution" =>
            LET xs == chain[k - 1].val
                d == chain[k].val
            IN  /\ Len(d) = 1
                /\ Len(d[1]) = Len(xs)
                /\ \A i \in 1..Len(xs) :
                        d[1][i] = [tag |-> "Apply", kind |-> "None", val |-> xs[i]]
                /\ xs = <<>> => d = <<<<>>>>

\* new_apply_distribution was applied to three elements, one of them twice.
C24_Witness ==
    /\ Len(chain) = 2
    /\ chain[2].op = "new_apply_distribution"
    /\ chain[1].val = <<2, 1, 2>>
    /\ chain[2].val = <<<<Apply(2), Apply(1), Apply(2)>>>>

\* C27 as stated: two groups compare equal iff they have the same number of
\* outcomes and their outcomes are equal position by position; groups of
\* different lengths never compare equal.
C27_StructuralEquality ==
    \A k \in Steps :
        chain[k].op = "eq" =>
            LET a == chain[k - 1].val[1]
                b == chain[k - 1].val[2]
            IN  /\ chain[k].val =
                       (/\ Len(a) = Len(b)
                        /\ \A i \in 1..Len(a) : a[i] = b[i])
                /\ Len(a) # Len(b) => chain[k].val = FALSE

\* ------------------------------------------------ claims on the driver's frame

\* A Failure(Instrumental) is among the outcomes of distribution d.
HasInstrumental(d) ==
    \E i \in 1..Len(d) : \E j \in 1..Len(d[i]) :
        d[i][j].tag = "Failure" /\ d[i][j].kind = "Instrumental"

\* C25: the driver does not reclassify, reorder, add or remove outcomes: a
\* completed call adds the group the processing function returned, as it is,
\* to the groups collected; the distribution the next round hands to the
\* heuristic stack is the list of the groups returned in this round, in call
\* order; and the loop goes on iff one of these groups is not all done,
\* whatever the outcomes were before.
C25_DriverFrame ==
    [][/\ Len(calls') = Len(calls) + 1 =>
            /\ new_distribution' =
                   Append(new_distribution, calls'[Len(calls')].output)
            /\ distribution' = distribution
       /\ (pc = "for" /\ pc' = "distribute") =>
            /\ ~AllSettled(Outputs)
            /\ distribution' = Outputs
            /\ roundStart' = Outputs
            /\ hidx' = 1
            /\ result' = NoResult
       /\ (pc = "for" /\ result'.ok) =>
            /\ AllSettled(Outputs)
            /\ result'.val = Outputs
            /\ pc' = "done"]_vars

\* A round whose distribution had every outcome done has ended with an
\* instrumental failure among the groups returned, and the next round has
\* started on them.
C25_Witness ==
    /\ pc = "distribute"
    /\ hidx = 1
    /\ round = 2
    /\ seed # <<>>
    /\ AllSettled(seed)
    /\ HasInstrumental(distribution)
    /\ Len(distribution) >= 2

\* C26: when the processing function returns an error for the i-th group of
\* a round, the driver returns that error there and then: the groups after
\* the i-th are never passed to the function, no further round starts, and
\* the groups collected in the round are not returned.
C26_FuncErrorAborts ==
    result.src = "func" =>
        /\ pc = "done"
        /\ result = [ok |-> FALSE, src |-> "func", at |-> Len(calls) + 1, val |-> <<>>]
        /\ result.at \in 1..Len(distribution)
        /\ Inputs = SubSeq(distribution, 1, result.at - 1)
        /\ pending = SubSeq(distribution, result.at + 1, Len(distribution))
        /\ inflight = <<>>
        /\ new_distribution = Outputs
        /\ ~ENABLED Next

\* The processing function failed on the second of three or more groups:
\* one group had been collected and one or more were still to be taken.
C26_Witness ==
    /\ result.src = "func"
    /\ result.at = 2
    /\ Len(new_distribution) = 1
    /\ new_distribution[1] # <<>>
    /\ pending # <<>>
    /\ round = 2

\* The heuristic stack has returned a distribution with no groups.
EmptyRound == Processing /\ distribution = <<>>

\* C28: when the heuristic stack yields a distribution with no groups, the
\* processing function is not invoked and the driver returns Ok with the
\* empty distribution at the end of that round, the first, rather than
\* starting another one.
C28_EmptyDistribution ==
    /\ [](EmptyRound =>
            /\ round = 1
            /\ pending = <<>>
            /\ inflight = <<>>
            /\ calls = <<>>
            /\ new_distribution = <<>>
            /\ pc \in {"for", "done"}
            /\ pc = "done" =>
                    result = [ok |-> TRUE, src |-> "none", at |-> 0, val |-> <<>>])
    /\ [][EmptyRound => (EmptyRound' /\ pc' = "done")]_vars
    /\ (EmptyRound ~> (pc = "done" /\ result.ok /\ result.val = <<>>))

\* A driver whose Chunking heuristic was given one empty group has returned
\* Ok with no groups.
C28_Witness ==
    /\ pc = "done"
    /\ result.ok
    /\ result.val = <<>>
    /\ seed = <<<<>>>>
    /\ stack # <<>>
    /\ round = 1

====
